---- MODULE Spec2Model ----
(***************************************************************************)
(* Voice expense tracker: the transcript parser (utils/index.js), the      *)
(* speech session hook (hooks/useSpeechRecognition.js), the capture widget *)
(* (components/ExpenseInput.jsx), the expense context's addExpense and the *)
(* storage service's addExpense.                                           *)
(*                                                                         *)
(* Text is a sequence of one-character strings.  Amounts are integers in   *)
(* hundredths (10.50 is 1050): the amount patterns admit at most two       *)
(* fractional digits, so the value parseFloat returns is exactly           *)
(* hundredths / 100.                                                       *)
(***************************************************************************)
EXTENDS Integers, Sequences, FiniteSets, TLC

\* ------------------------------------------------------------------------
\* Characters and string primitives (JavaScript String methods)
\* ------------------------------------------------------------------------

Digits == <<"0", "1", "2", "3", "4", "5", "6", "7", "8", "9">>

UpperAlpha ==
  <<"A", "B", "C", "D", "E", "F", "G", "H", "I", "J", "K", "L", "M",
    "N", "O", "P", "Q", "R", "S", "T", "U", "V", "W", "X", "Y", "Z">>

LowerAlpha ==
  <<"a", "b", "c", "d", "e", "f", "g", "h", "i", "j", "k", "l", "m",
    "n", "o", "p", "q", "r", "s", "t", "u", "v", "w", "x", "y", "z">>

IsDigit(c) == \E d \in 1..10 : Digits[d] = c

DigitVal(c) == (CHOOSE d \in 1..10 : Digits[d] = c) - 1

\* \s of a JavaScript regular expression, and the characters trim() removes
IsSpace(c) == c \in {" ", "\t", "\n", "\r"}

\* . of a JavaScript regular expression: any character but a line terminator
IsDot(c) == c \notin {"\n", "\r"}

IsCurrencySymbol(c) == c \in {"$", "£", "€"}

IsPunct(c) == c \in {".", ",", "!", "?", ";", ":"}

toLowerChar(c) ==
  IF \E k \in 1..26 : UpperAlpha[k] = c
  THEN LowerAlpha[CHOOSE k \in 1..26 : UpperAlpha[k] = c]
  ELSE c

toLowerCase(s) == [k \in 1..Len(s) |-> toLowerChar(s[k])]

\* s.substring(from - 1, to) with 1-based inclusive bounds; empty when from > to
Sub(s, from, to) == IF from > to THEN << >> ELSE SubSeq(s, from, to)

\* every character of s[from..to] satisfies the class
AllSpace(s, from, to) == \A k \in from..to : IsSpace(s[k])
AllDot(s, from, to) == \A k \in from..to : IsDot(s[k])

trim(s) ==
  IF \A k \in 1..Len(s) : IsSpace(s[k]) THEN << >>
  ELSE LET first == CHOOSE i \in 1..Len(s) :
                      /\ ~IsSpace(s[i])
                      /\ \A k \in 1..(i - 1) : IsSpace(s[k])
           last == CHOOSE j \in 1..Len(s) :
                      /\ ~IsSpace(s[j])
                      /\ \A k \in (j + 1)..Len(s) : IsSpace(s[k])
       IN SubSeq(s, first, last)

\* whether word w stands in s at position p
StartsAt(s, p, w) ==
  /\ p >= 1
  /\ p + Len(w) - 1 <= Len(s)
  /\ SubSeq(s, p, p + Len(w) - 1) = w

\* s.indexOf(w), 1-based; 0 when w does not occur
indexOf(s, w) ==
  IF \E p \in 1..Len(s) : StartsAt(s, p, w)
  THEN CHOOSE p \in 1..Len(s) :
         /\ StartsAt(s, p, w)
         /\ \A q \in 1..(p - 1) : ~StartsAt(s, q, w)
  ELSE 0

\* the first position >= p whose character is not whitespace (Len(s)+1 if none):
\* where a greedy \s* or \s+ started at p stops
SkipSpace(s, p) ==
  CHOOSE q \in p..(Len(s) + 1) :
    /\ AllSpace(s, p, q - 1)
    /\ (q <= Len(s) => ~IsSpace(s[q]))

\* the first position >= p whose character is not a digit: where \d+ stops
SkipDigits(s, p) ==
  CHOOSE q \in p..(Len(s) + 1) :
    /\ \A k \in p..(q - 1) : IsDigit(s[k])
    /\ (q <= Len(s) => ~IsDigit(s[q]))

\* F applied to the value of x, which is computed once
Bind(x, F(_)) == CHOOSE out \in {F(v) : v \in {x}} : TRUE

Min(S) == CHOOSE x \in S : \A y \in S : x <= y
Max(S) == CHOOSE x \in S : \A y \in S : x >= y

\* ------------------------------------------------------------------------
\* parseExpenseString: amount patterns
\* ------------------------------------------------------------------------

\* (?:[.,]\d{1,2})? tried at position q, right after the digits of \d+: the last
\* position of the number
FractionEnd(s, q) ==
  IF /\ q + 1 <= Len(s)
     /\ s[q] \in {".", ","}
     /\ IsDigit(s[q + 1])
  THEN IF q + 2 <= Len(s) /\ IsDigit(s[q + 2]) THEN q + 2 ELSE q + 1
  ELSE q - 1

\* (\d+(?:[.,]\d{1,2})?) matched greedily at a digit position p: the last
\* position of the number
NumberEnd(s, p) == FractionEnd(s, SkipDigits(s, p))

\* word, or word followed by "s", at position p: the characters consumed, 0 when
\* the word is not there
WordLen(s, p, word, plural) ==
  IF ~StartsAt(s, p, word) THEN 0
  ELSE IF plural /\ StartsAt(s, p + Len(word), <<"s">>) THEN Len(word) + 1
  ELSE Len(word)

\* the alternatives of (?:dollars?|pounds?|euros?|usd|dollar|pound|euro) that
\* can decide a match; dollar, pound and euro match only where an earlier
\* alternative already does
CurrencyWords ==
  << <<"d", "o", "l", "l", "a", "r">>, <<"p", "o", "u", "n", "d">>,
     <<"e", "u", "r", "o">>, <<"u", "s", "d">> >>

\* the currency word alternation at position p: the number of characters the
\* first alternative that matches consumes, 0 when none matches
CurrencyWordLen(s, p) ==
  IF \E k \in 1..4 : StartsAt(s, p, CurrencyWords[k])
  THEN WordLen(s, p, CurrencyWords[Min({k \in 1..4 : StartsAt(s, p, CurrencyWords[k])})],
               ~StartsAt(s, p, CurrencyWords[4]))
  ELSE 0

NoMatch == [found |-> FALSE, from |-> 0, to |-> 0, numFrom |-> 0, numTo |-> 0]

Match(from, to, numFrom, numTo) ==
  [found |-> TRUE, from |-> from, to |-> to, numFrom |-> numFrom, numTo |-> numTo]

\* the match of a pattern whose phrase ends with its number
NumberLast(from, numFrom, numTo) == Match(from, numTo, numFrom, numTo)

\* Pattern 1 tried at position i: a currency symbol, \s*, a digit
SymbolAt(s, i, j) == IsCurrencySymbol(s[i]) /\ j <= Len(s) /\ IsDigit(s[j])

SymbolMatch(s, i, j) == NumberLast(i, j, NumberEnd(s, j))

FirstOf(s, starts, M(_, _)) == IF starts = {} THEN NoMatch ELSE M(s, Min(starts))

\* Pattern 1: /(?:[\$£€])\s*(\d+(?:[.,]\d{1,2})?)/, the leftmost match
SymbolPattern(s) ==
  FirstOf(s, {i \in 1..Len(s) : SymbolAt(s, i, SkipSpace(s, i + 1))},
          LAMBDA t, i : SymbolMatch(t, i, SkipSpace(t, i + 1)))

\* Pattern 2 tried at the digit position i, numTo the end of the greedy number
\* and w where the whitespace after it ends.  After the number only whitespace
\* or a letter can follow, so a start position matches exactly when the greedy
\* number does.
WordAt(s, i, w) == IsDigit(s[i]) /\ CurrencyWordLen(s, w) > 0

WordMatch(s, i, numTo, w) == Match(i, w + CurrencyWordLen(s, w) - 1, i, numTo)

\* Pattern 2: /(\d+(?:[.,]\d{1,2})?)\s*(?:dollars?|...|euro)/, the leftmost match
WordPattern(s) ==
  FirstOf(s, {i \in 1..Len(s) : WordAt(s, i, SkipSpace(s, NumberEnd(s, i) + 1))},
          LAMBDA t, i : WordMatch(t, i, NumberEnd(t, i), SkipSpace(t, NumberEnd(t, i) + 1)))

\* Pattern 3: /(\d+(?:[.,]\d{1,2})?)/, the leftmost match
BarePattern(s) ==
  FirstOf(s, {i \in 1..Len(s) : IsDigit(s[i])},
          LAMBDA t, i : NumberLast(i, i, NumberEnd(t, i)))

FirstFound(m, rest) == IF m.found THEN m ELSE rest

\* the patterns listed in the opposite order
amountPatterns_BareFirst(s) ==
  FirstFound(BarePattern(s), FirstFound(WordPattern(s), SymbolPattern(s)))

\* the for loop over amountPatterns: the first pattern that matches at all
amountPatterns(s) ==
  FirstFound(SymbolPattern(s), FirstFound(WordPattern(s), BarePattern(s)))

\* numericString.replace(/,/g, '')
removeCommas(s) == SelectSeq(s, LAMBDA c : c # ",")

RECURSIVE DigitsValue(_)
DigitsValue(s) ==
  IF s = << >> THEN 0
  ELSE 10 * DigitsValue(SubSeq(s, 1, Len(s) - 1)) + DigitVal(s[Len(s)])

\* the hundredths of the fractional digits
FractionValue(frac) ==
  IF Len(frac) = 1 THEN 10 * DigitsValue(frac) ELSE DigitsValue(frac)

FloatValue(s, dot) ==
  IF dot = 0 THEN 100 * DigitsValue(s)
  ELSE 100 * DigitsValue(Sub(s, 1, dot - 1)) + FractionValue(Sub(s, dot + 1, Len(s)))

\* parseFloat of digits with an optional "." and one or two digits, in hundredths
parseFloat(s) == FloatValue(s, indexOf(s, <<".">>))

\* ------------------------------------------------------------------------
\* parseExpenseString: description extraction
\* ------------------------------------------------------------------------

CutAt(s, matchIndex, length) ==
  IF matchIndex # 0
  THEN trim(Sub(s, 1, matchIndex - 1) \o Sub(s, matchIndex + length, Len(s)))
  ELSE trim(s)

\* remainingTranscript: the text with the amount phrase cut out at its first
\* occurrence, trimmed; the replace() fallback when indexOf finds nothing
removeAmountPhrase(s, phrase) == CutAt(s, indexOf(s, phrase), Len(phrase))

\* kw at b, whitespace after it at e, then at least one "." character
KeywordTail(s, kw, b, e) ==
  /\ StartsAt(s, b, kw)
  /\ e <= Len(s)
  /\ IsSpace(s[e])
  /\ \E c \in (e + 1)..Len(s) : AllSpace(s, e, c - 1) /\ IsDot(s[c])

KeywordFrom(s, kw, b) == KeywordTail(s, kw, b, b + Len(kw))

\* /(.+)\s+kw\s+(.+)/ on s.  A match starting at i with group 1 ending before a:
\* s[i..a-1] are "." characters, a whitespace run starts at a and ends right
\* before kw, kw is followed by whitespace and then by at least one "." character.
KeywordMatchAt(s, kw, i, a) ==
  /\ i < a
  /\ a <= Len(s)
  /\ AllDot(s, i, a - 1)
  /\ IsSpace(s[a])
  /\ KeywordFrom(s, kw, SkipSpace(s, a))

\* group 2 when it starts at c: greedy to the end of the "." characters
Group2From(s, c) == SubSeq(s, c, Max({x \in c..Len(s) : AllDot(s, c, x)}))

\* group 2 when the whitespace after kw starts at e: that whitespace is greedy
Group2After(s, e) ==
  Group2From(s, Max({x \in (e + 1)..Len(s) : AllSpace(s, e, x - 1) /\ IsDot(s[x])}))

\* group 2 when group 1 ends before a
Group2(s, kw, a) == Group2After(s, SkipSpace(s, a) + Len(kw))

\* group 2 for a match starting at i: group 1 is greedy
KeywordGroup2(s, kw, i) ==
  Group2(s, kw, Max({x \in 1..Len(s) : KeywordMatchAt(s, kw, i, x)}))

KeywordStarts(s, kw) ==
  {i \in 1..Len(s) : \E a \in 1..Len(s) : KeywordMatchAt(s, kw, i, a)}

NoKeyword == [found |-> FALSE, group2 |-> << >>]

KeywordFirst(s, kw, starts) ==
  IF starts = {} THEN NoKeyword
  ELSE [found |-> TRUE, group2 |-> KeywordGroup2(s, kw, Min(starts))]

\* group 2 of the match the regular expression engine returns (leftmost start,
\* group 1 greedy, the whitespace after kw greedy, group 2 greedy); found is
\* FALSE when the expression does not match
KeywordMatch(s, kw) == KeywordFirst(s, kw, KeywordStarts(s, kw))

FillerWords ==
  << <<"s", "p", "e", "n", "t">>, <<"a", "d", "d">>, <<"l", "o", "g">>,
     <<"c", "o", "s", "t">>, <<"e", "x", "p", "e", "n", "s", "e">>,
     <<"w", "a", "s">>, <<"i", "s">>, <<"b", "u", "y">>, <<"g", "e", "t">>,
     <<"p", "a", "i", "d">>, <<"a">>, <<"a", "n">>, <<"t", "h", "e">> >>

\* the filler word w, then whitespace, at the start of s
LeadingFiller(s, w) ==
  StartsAt(s, 1, w) /\ Len(w) < Len(s) /\ IsSpace(s[Len(w) + 1])

DropLeading(s, hits) ==
  IF hits = {} THEN s
  ELSE Sub(s, SkipSpace(s, Len(FillerWords[Min(hits)]) + 1), Len(s))

\* the leading clean-up left out
stripLeadingFiller_Skipped(s) == s

\* description.replace(/^(?:spent|...|the)\s+/i, ''): one leading filler word
\* and the whitespace after it
stripLeadingFiller(s) ==
  DropLeading(s, {k \in 1..Len(FillerWords) : LeadingFiller(s, FillerWords[k])})

\* whitespace, then the filler word w at position at, the end of s
TrailingFiller(s, w, at) == at >= 2 /\ StartsAt(s, at, w) /\ IsSpace(s[at - 1])

\* s without the whitespace run that ends right before position at, and
\* without what follows
DropFrom(s, at) == Sub(s, 1, Min({p \in 1..(at - 1) : AllSpace(s, p, at - 1)}) - 1)

DropTrailing(s, hits) ==
  IF hits = {} THEN s
  ELSE DropFrom(s, Len(s) - Len(FillerWords[Min(hits)]) + 1)

\* description.replace(/\s+(?:spent|...|the)$/i, ''): one trailing filler word
\* and the whole whitespace run before it (the leftmost match)
stripTrailingFiller(s) ==
  DropTrailing(s, {k \in 1..Len(FillerWords) :
                     TrailingFiller(s, FillerWords[k], Len(s) - Len(FillerWords[k]) + 1)})

\* description.replace(/^[.,!?;:]+|[.,!?;:]+$/g, '')
stripPunctuation(s) ==
  IF \A k \in 1..Len(s) : IsPunct(s[k]) THEN << >>
  ELSE SubSeq(s, Min({i \in 1..Len(s) : ~IsPunct(s[i])}),
                 Max({j \in 1..Len(s) : ~IsPunct(s[j])}))

cleanDescription(s) ==
  trim(stripPunctuation(trim(stripTrailingFiller(trim(stripLeadingFiller(s))))))

ChooseDescription(remainingTranscript, kwOn, kwFor) ==
  IF kwOn.found THEN trim(kwOn.group2)
  ELSE IF kwFor.found THEN trim(kwFor.group2)
  ELSE remainingTranscript

\* the description before clean-up: the text after "on", else after "for", else
\* the whole remaining text
extractDescription(remainingTranscript) ==
  ChooseDescription(remainingTranscript,
                    KeywordMatch(remainingTranscript, <<"o", "n">>),
                    KeywordMatch(remainingTranscript, <<"f", "o", "r">>))

Null == [ok |-> FALSE, amount |-> 0, description |-> << >>]

\* an empty description let through
Result_AllowsEmpty(amount, description) ==
  [ok |-> TRUE, amount |-> amount, description |-> description]

\* step 4: the result, or Null for an empty description
Result(amount, description) ==
  IF description = << >> THEN Null
  ELSE [ok |-> TRUE, amount |-> amount, description |-> description]

\* steps 3 and 4, with the amount validated before
Described(currentTranscript, fullAmountPhrase, amount) ==
  IF amount <= 0 THEN Null
  ELSE Result(amount,
              cleanDescription(extractDescription(
                removeAmountPhrase(currentTranscript, fullAmountPhrase))))

\* a text without a number taken as an expense of 1
Matched_DefaultAmount(currentTranscript, m) ==
  IF ~m.found THEN Described(currentTranscript, << >>, 100)
  ELSE Described(currentTranscript,
                 SubSeq(currentTranscript, m.from, m.to),
                 parseFloat(removeCommas(SubSeq(currentTranscript, m.numFrom, m.numTo))))

\* the parse from the match m of the amount patterns on
Matched(currentTranscript, m) ==
  IF ~m.found THEN Null
  ELSE Described(currentTranscript,
                 SubSeq(currentTranscript, m.from, m.to),
                 parseFloat(removeCommas(SubSeq(currentTranscript, m.numFrom, m.numTo))))

Lowered(currentTranscript) == Matched(currentTranscript, amountPatterns(currentTranscript))

\* the text matched as it was said, not lower-cased
parseExpenseString_CaseSensitive(transcript) ==
  IF trim(transcript) = << >> THEN Null ELSE Lowered(transcript)

\* parseExpenseString(transcript): Null, or the amount in hundredths and the
\* description
parseExpenseString(transcript) ==
  IF trim(transcript) = << >> THEN Null ELSE Lowered(toLowerCase(transcript))

\* ------------------------------------------------------------------------
\* State
\* ------------------------------------------------------------------------

VARIABLES
  supported,        \* browserSupportsSpeechRecognition: the host has the constructor
  dbAvailable,      \* firebase.js: db is not null
  mounted,          \* the capture widget (and with it the hook) is mounted
  isListening,      \* hook state
  transcript,       \* hook state, << >> is ''
  error,            \* hook state, NULL is null
  recognitionRef,   \* recognitionRef.current holds an instance
  attached,         \* onresult / onerror / onend of the instance are the handlers
  hostState,        \* the instance: inactive, capturing, stopping, aborting, errored
  hostFinal,        \* the instance has delivered this turn's final result
  statusMessage,    \* widget state
  messageSeverity,  \* widget state
  isProcessing,     \* widget state
  inflight,         \* addDoc calls awaiting the store, each with its arguments
  ctxError,         \* the expense context's error state
  lastOp,           \* history: the operation the last step performed
  lastText,         \* history: the final text of the last result event
  lastCode,         \* history: the code of the last error event
  lastThrew,        \* history: the host request of the last step threw
  wasListening,     \* history: isListening before the last step
  hostCalls,        \* history: the host calls the last step made, in order
  addCalls,         \* history: the add-action invocations of the last step
  utterAdds,        \* history: add-action invocations for the stored utterance
  prevText,         \* history: the transcript when start() last asked the host
  expenses,         \* the expense context's list
  loading,          \* the expense context's loading flag
  subscription,     \* the provider's subscription: none, active, null, closed, unmounted
  lastData,         \* history: the data the context's addExpense was last called with
  lastOutcome,      \* history: how that call went
  lastList,         \* history: the list of the last snapshot
  providerOp,       \* history: the last step of the provider
  priorError,       \* history: the context error before that step
  rawCode,          \* the string last given to mapSpeechErrorToMessage on its own
  userMessage,      \* what it returned
  said,             \* the words of the text last given to parseExpenseString on its own
  parsed            \* what it returned

vars ==
  <<supported, dbAvailable, mounted, isListening, transcript, error,
    recognitionRef, attached, hostState, hostFinal, statusMessage,
    messageSeverity, isProcessing, inflight, ctxError, lastOp, lastText,
    lastCode, lastThrew, wasListening, hostCalls, addCalls, utterAdds,
    prevText, expenses, loading, subscription, lastData, lastOutcome, lastList,
    providerOp, priorError,
    rawCode, userMessage, said, parsed>>

\* the state of the application
appVars ==
  <<supported, dbAvailable, mounted, isListening, transcript, error,
    recognitionRef, attached, hostState, hostFinal, statusMessage,
    messageSeverity, isProcessing, inflight, ctxError, lastOp, lastText,
    lastCode, lastThrew, wasListening, hostCalls, addCalls, utterAdds,
    prevText, expenses, loading, subscription, lastData, lastOutcome, lastList,
    providerOp, priorError>>

\* the most addDoc calls the model lets be pending at once
MaxInflight == 2

\* utterAdds counts up to this value and stays there
MaxAddCount == 2

NULL == "<null>"

\* final texts the host delivers
Utterances ==
  { <<"$", "5", " ", "t", "e", "a">>,
    <<"T", "a", "x", "i", " ", "7", " ", "u", "s", "d">>,
    <<"h", "i">> }

\* event.error of the host's error event; "" stands for a missing code
ErrorCodes == {"no-speech", "network", ""}

\* err.message of an exception thrown by the host's start(); "" is no message
StartFailures == {"recognition has already started", ""}

UnsupportedError == "Browser does not support speech recognition."

\* the program state as one record, for the handlers below
Cur ==
  [supported |-> supported, dbAvailable |-> dbAvailable, mounted |-> mounted,
   isListening |-> isListening, transcript |-> transcript, error |-> error,
   recognitionRef |-> recognitionRef, attached |-> attached,
   hostState |-> hostState, hostFinal |-> hostFinal,
   statusMessage |-> statusMessage, messageSeverity |-> messageSeverity,
   isProcessing |-> isProcessing, inflight |-> inflight, ctxError |-> ctxError,
   lastThrew |-> FALSE, hostCalls |-> << >>, addCalls |-> << >>,
   utterAdds |-> utterAdds]

\* ------------------------------------------------------------------------
\* useSpeechRecognition
\* ------------------------------------------------------------------------

\* mutation of handleResult: the stale error is kept
handleResult_KeepsError(s, finalTranscript) ==
  IF finalTranscript # << >>
  THEN [s EXCEPT !.transcript = finalTranscript, !.utterAdds = 0]
  ELSE s

\* mutation of handleResult: the final text is stored whatever it is
handleResult_StoresEmpty(s, finalTranscript) ==
  [s EXCEPT !.transcript = finalTranscript, !.error = NULL, !.utterAdds = 0]

\* handleResultRef: event carries the concatenated final text
handleResult(s, finalTranscript) ==
  IF finalTranscript # << >>
  THEN [s EXCEPT !.transcript = finalTranscript, !.error = NULL, !.utterAdds = 0]
  ELSE s

\* mutation of handleError: the listening state is left alone
handleError_StaysListening(s, code) ==
  [s EXCEPT !.error = IF code # "" THEN code ELSE "Unknown recognition error"]

\* handleErrorRef
handleError(s, code) ==
  [s EXCEPT !.error = IF code # "" THEN code ELSE "Unknown recognition error",
            !.isListening = FALSE]

\* handleEndRef
handleEnd(s) == [s EXCEPT !.isListening = FALSE]

\* the instance's start(): it throws when the instance is not inactive
\* (InvalidStateError) or when throws says so
hostStartThrows(s, throws) == throws \/ s.hostState # "inactive"

\* mutation of requestStart: a start() that throws is taken as started
requestStart_SwallowsFailure(ready, threw, message) ==
  [ready EXCEPT !.hostState = IF threw THEN ready.hostState ELSE "capturing",
                !.hostFinal = FALSE,
                !.isListening = TRUE,
                !.lastThrew = threw]

\* the try block of startListening from the start() call on, and its catch
\* block; ready is the state with the instance created and the handlers attached
requestStart(ready, threw, message) ==
  IF threw
  THEN [ready EXCEPT
          !.error = IF message # "" THEN message ELSE "Failed to start listening.",
          !.isListening = FALSE,
          !.lastThrew = TRUE]
  ELSE [ready EXCEPT !.hostState = "capturing", !.hostFinal = FALSE,
                     !.isListening = TRUE]

\* mutation of startListening: no check of isListening
startListening_NoGuard(s, throws, message) ==
  IF ~s.supported THEN [s EXCEPT !.error = UnsupportedError]
  ELSE requestStart(
         [s EXCEPT !.transcript = << >>, !.error = NULL, !.utterAdds = 0,
                   !.recognitionRef = TRUE, !.attached = TRUE,
                   !.hostCalls = s.hostCalls
                                   \o (IF s.recognitionRef THEN << >> ELSE <<"new">>)
                                   \o <<"start">>],
         hostStartThrows(s, throws), message)

\* mutation of startListening: the prior transcript is kept
startListening_KeepsTranscript(s, throws, message) ==
  IF s.isListening THEN s
  ELSE IF ~s.supported THEN [s EXCEPT !.error = UnsupportedError]
  ELSE requestStart(
         [s EXCEPT !.error = NULL,
                   !.recognitionRef = TRUE, !.attached = TRUE,
                   !.hostCalls = s.hostCalls
                                   \o (IF s.recognitionRef THEN << >> ELSE <<"new">>)
                                   \o <<"start">>],
         hostStartThrows(s, throws), message)

\* mutation of startListening: no check of the host's support
startListening_NoSupportCheck(s, throws, message) ==
  IF s.isListening THEN s
  ELSE requestStart(
         [s EXCEPT !.transcript = << >>, !.error = NULL, !.utterAdds = 0,
                   !.recognitionRef = TRUE, !.attached = TRUE,
                   !.hostCalls = s.hostCalls
                                   \o (IF s.recognitionRef THEN << >> ELSE <<"new">>)
                                   \o <<"start">>],
         hostStartThrows(s, throws), message)

\* startListening(); throws and message describe the host's answer to start()
startListening(s, throws, message) ==
  IF s.isListening THEN s
  ELSE IF ~s.supported THEN [s EXCEPT !.error = UnsupportedError]
  ELSE requestStart(
         [s EXCEPT !.transcript = << >>, !.error = NULL, !.utterAdds = 0,
                   !.recognitionRef = TRUE, !.attached = TRUE,
                   !.hostCalls = s.hostCalls
                                   \o (IF s.recognitionRef THEN << >> ELSE <<"new">>)
                                   \o <<"start">>],
         hostStartThrows(s, throws), message)

\* mutation of stopListening: the host is not asked to stop
stopListening_NoRequest(s, throws) ==
  IF ~s.isListening \/ ~s.recognitionRef THEN s
  ELSE IF throws THEN [s EXCEPT !.isListening = FALSE, !.lastThrew = TRUE]
  ELSE s

\* mutation of stopListening: no check of isListening
stopListening_NoGuard(s, throws) ==
  IF ~s.recognitionRef THEN s
  ELSE IF throws
  THEN [s EXCEPT !.hostCalls = s.hostCalls \o <<"stop">>,
                 !.isListening = FALSE, !.lastThrew = TRUE]
  ELSE [s EXCEPT !.hostCalls = s.hostCalls \o <<"stop">>,
                 !.hostState = IF s.hostState = "capturing" THEN "stopping"
                               ELSE s.hostState]

\* mutation of stopListening: a stop() that succeeds sets isListening too
stopListening_ForcesIdle(s, throws) ==
  IF ~s.isListening \/ ~s.recognitionRef THEN s
  ELSE [s EXCEPT !.hostCalls = s.hostCalls \o <<"stop">>,
                 !.isListening = FALSE, !.lastThrew = throws,
                 !.hostState = IF s.hostState = "capturing" /\ ~throws THEN "stopping"
                               ELSE s.hostState]

\* stopListening(); throws says whether the host's stop() throws
stopListening(s, throws) ==
  IF ~s.isListening \/ ~s.recognitionRef THEN s
  ELSE IF throws
  THEN [s EXCEPT !.hostCalls = s.hostCalls \o <<"stop">>,
                 !.isListening = FALSE, !.lastThrew = TRUE]
  ELSE [s EXCEPT !.hostCalls = s.hostCalls \o <<"stop">>,
                 !.hostState = IF s.hostState = "capturing" THEN "stopping"
                               ELSE s.hostState]

\* mutation of cleanup: the handlers stay on the instance
cleanup_KeepsHandlers(s) ==
  IF s.recognitionRef
  THEN [s EXCEPT !.hostCalls = s.hostCalls \o <<"abort">>,
                 !.hostState = IF s.hostState \in {"capturing", "stopping"}
                               THEN "aborting" ELSE s.hostState,
                 !.recognitionRef = FALSE]
  ELSE s

\* mutation of cleanup: recognitionRef.current keeps the instance
cleanup_KeepsInstance(s) ==
  IF s.recognitionRef
  THEN [s EXCEPT !.hostCalls = s.hostCalls \o <<"abort">>,
                 !.hostState = IF s.hostState \in {"capturing", "stopping"}
                               THEN "aborting" ELSE s.hostState,
                 !.attached = FALSE]
  ELSE s

\* the cleanup of the hook's effect, run on unmount
cleanup(s) ==
  IF s.recognitionRef
  THEN [s EXCEPT !.hostCalls = s.hostCalls \o <<"abort">>,
                 !.hostState = IF s.hostState \in {"capturing", "stopping"}
                               THEN "aborting" ELSE s.hostState,
                 !.attached = FALSE,
                 !.recognitionRef = FALSE]
  ELSE s

\* ------------------------------------------------------------------------
\* expenseService.addExpense and ExpenseProvider.addExpense
\* ------------------------------------------------------------------------

\* A value given as expenseData is a record with the text of the description
\* and the amount in hundredths.  What JavaScript tells apart beyond that is in
\* further fields, which the data of the capture widget does not need:
\* missing (expenseData is null), descriptionType and amountType (the typeof
\* of the two properties) and amountClass (finite, NaN, Infinity, -Infinity).
Field(expenseData, name, default) ==
  IF name \in DOMAIN expenseData THEN expenseData[name] ELSE default

\* !expenseData
IsMissing(expenseData) == Field(expenseData, "missing", FALSE)

DescriptionType(expenseData) == Field(expenseData, "descriptionType", "string")

AmountType(expenseData) == Field(expenseData, "amountType", "number")

AmountClass(expenseData) == Field(expenseData, "amountClass", "finite")

\* amount <= 0 for a number: false for NaN
AtMostZero(expenseData, class) ==
  CASE class = "NaN" -> FALSE
    [] class = "Infinity" -> FALSE
    [] class = "-Infinity" -> TRUE
    [] OTHER -> expenseData.amount <= 0

\* no expenseData yet
NoData == [missing |-> TRUE, description |-> << >>, amount |-> 0]

\* the description check of the service: '' for a falsy description, and
\* .trim() of a description that is a number throws
serviceDescription(expenseData, type) ==
  IF type = "undefined" THEN "null"
  ELSE IF type # "string" THEN "threw"
  ELSE IF trim(expenseData.description) = << >> THEN "null"
  ELSE "ok"

\* the amount check of the service
serviceAmount(expenseData) ==
  IF \/ AmountType(expenseData) # "number"
     \/ AtMostZero(expenseData, AmountClass(expenseData))
     \/ AmountClass(expenseData) # "finite"
  THEN "null"
  ELSE "pending"

\* expenseService.addExpense up to its await: "null" when it resolves with null
\* at once (no store, or input it refuses), "pending" when addDoc was called,
\* "threw" when it throws before that
serviceAddExpense(s, expenseData) ==
  IF ~s.dbAvailable THEN "null"
  ELSE IF IsMissing(expenseData) THEN "null"
  ELSE IF serviceDescription(expenseData, DescriptionType(expenseData)) # "ok"
  THEN serviceDescription(expenseData, DescriptionType(expenseData))
  ELSE serviceAmount(expenseData)

AddFailedMessage == "Failed to add expense. Please try again."

InvalidDescriptionMessage == "Invalid input: Description must be a non-empty string."

InvalidAmountMessage == "Invalid input: Amount must be a positive number."

\* ExpenseProvider.addExpense up to its await: the message of the validation
\* error it rejects with, else what the service answers; a service that throws
\* is caught and rejected with the message of the catch block
contextAddExpense(s, expenseData) ==
  IF \/ IsMissing(expenseData)
     \/ DescriptionType(expenseData) # "string"
     \/ trim(expenseData.description) = << >>
  THEN InvalidDescriptionMessage
  ELSE IF \/ AmountType(expenseData) # "number"
          \/ AtMostZero(expenseData, AmountClass(expenseData))
  THEN InvalidAmountMessage
  ELSE IF serviceAddExpense(s, expenseData) = "threw" THEN AddFailedMessage
  ELSE serviceAddExpense(s, expenseData)

\* ------------------------------------------------------------------------
\* ExpenseInput
\* ------------------------------------------------------------------------

\* the case labels of mapSpeechErrorToMessage
KnownCodes ==
  {"no-speech", "audio-capture", "not-allowed", "network", "aborted",
   "service-not-allowed", "bad-grammar", "language-not-supported", UnsupportedError}

\* the start of the default branch's message
UnknownPrefix == "An unexpected speech recognition error occurred: "

\* mapSpeechErrorToMessage(error) for null and for strings; !error holds for
\* null and for the empty string
mapSpeechErrorToMessage(err) ==
  CASE err = NULL \/ err = "" -> ""
    [] err = "no-speech" -> "No speech was detected. Please try speaking clearly."
    [] err = "audio-capture" ->
         "Audio capture failed. Ensure your microphone is working and properly connected."
    [] err = "not-allowed" ->
         "Microphone access denied. Please allow microphone permissions in your browser settings."
    [] err = "network" ->
         "Network error during speech recognition. Please check your connection."
    [] err = "aborted" -> "Speech recognition aborted."
    [] err = "service-not-allowed" ->
         "Speech recognition service denied. Check browser/system settings."
    [] err = "bad-grammar" -> "Speech recognition could not understand the grammar."
    [] err = "language-not-supported" ->
         "The configured language is not supported for speech recognition."
    [] err = UnsupportedError ->
         "Your browser does not support the Web Speech API needed for voice input."
    [] OTHER -> UnknownPrefix \o err

setStatus(s, message, severity) ==
  [s EXCEPT !.statusMessage = message, !.messageSeverity = severity]

\* the widget's state setters do nothing once it is unmounted
finishProcessing(s, message, severity) ==
  IF s.mounted
  THEN [setStatus(s, message, severity) EXCEPT !.isProcessing = FALSE]
  ELSE s

\* processAndAddExpense after the add-action resolved
addResolved(s) == finishProcessing(s, "Expense added successfully!", "success")

\* processAndAddExpense after the add-action rejected with message
addRejected(s, message) ==
  finishProcessing([s EXCEPT !.ctxError = message],
                   "Error adding expense: " \o message, "error")

ParseFailedMessage ==
  "Could not understand the expense details. Try saying \"Spent 10 dollars on coffee\"."

\* parseExpenseString on the texts the host delivers, computed once
parsedUtterances == [text \in Utterances |-> parseExpenseString(text)]

\* the truthiness test of parsedData, parsedData.amount and parsedData.description
parsedOk(parsedData) ==
  parsedData.ok /\ parsedData.amount # 0 /\ parsedData.description # << >>

\* processAndAddExpense from the answer of the add-action on: outcome is
\* "pending" when addDoc was called, "null" when the add-action resolved at once,
\* else the message it rejected with
addOutcome(s, adding, expenseData, outcome) ==
  IF outcome = "pending"
  THEN [adding EXCEPT !.inflight = s.inflight \o <<expenseData>>]
  ELSE IF outcome = "null" THEN addResolved(adding)
  ELSE addRejected(adding, outcome)

\* processAndAddExpense with a usable parse: the add-action is invoked
addParsed(s, started, expenseData) ==
  addOutcome(s,
             [setStatus(started, "Adding expense...", "info")
                EXCEPT !.addCalls = s.addCalls \o <<expenseData>>,
                       !.utterAdds = IF s.utterAdds < MaxAddCount
                                     THEN s.utterAdds + 1 ELSE s.utterAdds],
             expenseData,
             contextAddExpense(s, expenseData))

\* mutation of processParsed: the add-action is invoked whatever the parse
processParsed_AlwaysAdds(s, started, parsedData) ==
  addParsed(s, started,
            [amount |-> parsedData.amount, description |-> parsedData.description])

\* mutation of processParsed: a parse failure is reported as an error
processParsed_ErrorSeverity(s, started, parsedData) ==
  IF parsedOk(parsedData)
  THEN addParsed(s, started,
                 [amount |-> parsedData.amount, description |-> parsedData.description])
  ELSE finishProcessing(started, ParseFailedMessage, "error")

\* processAndAddExpense from the parse on
processParsed(s, started, parsedData) ==
  IF parsedOk(parsedData)
  THEN addParsed(s, started,
                 [amount |-> parsedData.amount, description |-> parsedData.description])
  ELSE finishProcessing(started, ParseFailedMessage, "warning")

\* the body of the transcript effect once its guard has passed, up to the first
\* point where it waits for the store: the continuation of an add-action that
\* settles without the store runs before the next render, so it is part of this
\* step
processAndAddExpense(s, text) ==
  processParsed(s,
                [setStatus(s, "Processing your command...", "info")
                   EXCEPT !.isProcessing = TRUE],
                parsedUtterances[text])

\* the effect on [speechError], with the values of the render r
speechErrorEffect(r, s) ==
  IF r.error # NULL
  THEN [setStatus(s, mapSpeechErrorToMessage(r.error), "error")
          EXCEPT !.isProcessing = FALSE]
  ELSE s

\* the effect on [transcript, addExpense, isProcessing], with the values of the
\* render r
transcriptEffect(r, s) ==
  IF r.transcript # << >> /\ ~r.isProcessing
  THEN processAndAddExpense(s, r.transcript)
  ELSE s

\* one commit: the effects whose dependencies differ between the previous render
\* prev and this render r run in the order they are declared, and their state
\* updates are applied together afterwards
commitEffects(prev, r) ==
  Bind(IF r.error # prev.error THEN speechErrorEffect(r, r) ELSE r,
       LAMBDA afterError :
         IF r.transcript # prev.transcript \/ r.isProcessing # prev.isProcessing
         THEN transcriptEffect(r, afterError)
         ELSE afterError)

\* render after render until no effect changes the state any more
RECURSIVE render(_, _)
render(prev, r) ==
  IF ~r.mounted THEN r
  ELSE Bind(commitEffects(prev, r),
            LAMBDA next : IF next = r THEN r ELSE render(r, next))

\* handleMicClick, called with the button enabled
handleMicClick(s, throws, message) ==
  IF s.isListening THEN stopListening(s, throws)
  ELSE startListening(setStatus(s, "", "info"), throws, message)

\* the IconButton's disabled attribute
\* mutation of the control: it stays enabled while a cycle is processed
micDisabled_IgnoresProcessing(s) == ~s.supported

micDisabled(s) == ~s.supported \/ s.isProcessing

\* ------------------------------------------------------------------------
\* Steps
\* ------------------------------------------------------------------------

Init ==
  /\ supported \in BOOLEAN
  /\ dbAvailable \in BOOLEAN
  /\ mounted = TRUE
  /\ isListening = FALSE
  /\ transcript = << >>
  /\ error = NULL
  /\ recognitionRef = FALSE
  /\ attached = FALSE
  /\ hostState = "inactive"
  /\ hostFinal = FALSE
  /\ statusMessage = ""
  /\ messageSeverity = "info"
  /\ isProcessing = FALSE
  /\ inflight = << >>
  /\ ctxError = NULL
  /\ lastOp = "init"
  /\ lastText = << >>
  /\ lastCode = ""
  /\ lastThrew = FALSE
  /\ wasListening = FALSE
  /\ hostCalls = << >>
  /\ addCalls = << >>
  /\ utterAdds = 0
  /\ prevText = << >>
  /\ expenses = << >>
  /\ loading = TRUE
  /\ subscription = "none"
  /\ lastData = NoData
  /\ lastOutcome = ""
  /\ lastList = << >>
  /\ providerOp = "init"
  /\ priorError = NULL
  /\ rawCode = NULL
  /\ userMessage = ""
  /\ said = << >>
  /\ parsed = Null

\* a handler ran and left the state s: React renders and runs the effects until
\* nothing changes, and that is the next state
Step(op, text, code, s) ==
  \E t \in {Bind(s, LAMBDA r : render(Cur, r))} :
     /\ Len(t.inflight) <= MaxInflight
     /\ supported' = t.supported
     /\ dbAvailable' = t.dbAvailable
     /\ mounted' = t.mounted
     /\ isListening' = t.isListening
     /\ transcript' = t.transcript
     /\ error' = t.error
     /\ recognitionRef' = t.recognitionRef
     /\ attached' = t.attached
     /\ hostState' = t.hostState
     /\ hostFinal' = t.hostFinal
     /\ statusMessage' = t.statusMessage
     /\ messageSeverity' = t.messageSeverity
     /\ isProcessing' = t.isProcessing
     /\ inflight' = t.inflight
     /\ ctxError' = t.ctxError
     /\ lastOp' = op
     /\ lastText' = text
     /\ lastCode' = code
     /\ lastThrew' = t.lastThrew
     /\ wasListening' = isListening
     /\ hostCalls' = t.hostCalls
     /\ addCalls' = t.addCalls
     /\ utterAdds' = t.utterAdds
     /\ prevText' = (IF op = "start" /\ t.hostCalls # << >> THEN transcript ELSE prevText)
     /\ UNCHANGED <<expenses, loading, subscription, lastData, lastOutcome, lastList,
                    providerOp, priorError>>
     /\ UNCHANGED <<rawCode, userMessage, said, parsed>>

\* the user presses the microphone button
MicClick ==
  /\ mounted
  /\ ~micDisabled(Cur)
  /\ \E throws \in BOOLEAN, message \in StartFailures :
       Step(IF isListening THEN "stop" ELSE "start", << >>, "",
            handleMicClick(Cur, throws, message))

\* a consumer of the hook calls startListening()
StartCall ==
  /\ mounted
  /\ \E throws \in BOOLEAN, message \in StartFailures :
       Step("start", << >>, "", startListening(Cur, throws, message))

\* a consumer of the hook calls stopListening()
StopCall ==
  /\ mounted
  /\ \E throws \in BOOLEAN :
       Step("stop", << >>, "", stopListening(Cur, throws))

\* the host raises a result event; text is its final text, << >> when the event
\* carries no final result.  continuous = false: one final result a turn.
HostResult ==
  /\ hostState \in {"capturing", "stopping"}
  /\ attached
  /\ \E text \in Utterances \cup {<< >>} :
       /\ text # << >> => ~hostFinal
       /\ Step("result", text, "",
               [handleResult(Cur, text) EXCEPT !.hostFinal = hostFinal \/ text # << >>])

\* the host raises an error event; after abort() the code is "aborted"
HostError ==
  /\ hostState \in {"capturing", "stopping", "aborting"}
  /\ \E code \in (IF hostState = "aborting" THEN {"aborted"} ELSE ErrorCodes) :
       LET host == [Cur EXCEPT !.hostState = "errored"]
       IN IF attached
          THEN Step("error", << >>, code, handleError(host, code))
          ELSE Step("discarded", << >>, code, host)

\* the host raises the end event
HostEnd ==
  /\ hostState \in {"capturing", "stopping", "aborting", "errored"}
  /\ LET host == [Cur EXCEPT !.hostState = "inactive"]
     IN IF attached
        THEN Step("end", << >>, "", handleEnd(host))
        ELSE Step("discarded", << >>, "", host)

RemoveAt(seq, i) == SubSeq(seq, 1, i - 1) \o SubSeq(seq, i + 1, Len(seq))

\* the store answers a pending addDoc: the service returns or throws, the
\* context resolves or rejects, and processAndAddExpense runs to its end
AddSettled ==
  \E i \in 1..Len(inflight), stored \in BOOLEAN :
    LET taken == [Cur EXCEPT !.inflight = RemoveAt(inflight, i)]
    IN Step("addSettled", << >>, "",
            IF stored THEN addResolved(taken) ELSE addRejected(taken, AddFailedMessage))

\* the widget is unmounted
Unmount ==
  /\ mounted
  /\ Step("unmount", << >>, "", [cleanup(Cur) EXCEPT !.mounted = FALSE])

\* the application: the hook is driven by the widget alone
Next ==
  \/ MicClick
  \/ HostResult
  \/ HostError
  \/ HostEnd
  \/ AddSettled
  \/ Unmount

Spec == Init /\ [][Next]_vars

\* the session on its own: any consumer may call startListening() and
\* stopListening() at any time
NextSession ==
  \/ StartCall
  \/ StopCall
  \/ HostResult
  \/ HostError
  \/ HostEnd
  \/ AddSettled
  \/ Unmount

SpecSession == Init /\ [][NextSession]_vars

\* ------------------------------------------------------------------------
\* ExpenseProvider and ExpenseList
\* ------------------------------------------------------------------------

\* the provider's state and what it works with
Provider ==
  [expenses |-> expenses, loading |-> loading, error |-> ctxError,
   subscription |-> subscription, dbAvailable |-> dbAvailable,
   inflight |-> inflight]

LoadFailedMessage == "Failed to load expenses. Please try again later."

\* mutation of handleUpdate: the error is left as it is
handleUpdate_KeepsError(p, updatedExpenses) ==
  [p EXCEPT !.expenses = updatedExpenses, !.loading = FALSE]

\* handleUpdate of the subscription effect
handleUpdate(p, updatedExpenses) ==
  [p EXCEPT !.expenses = updatedExpenses, !.loading = FALSE, !.error = NULL]

\* handleError of the subscription effect
handleLoadError(p) ==
  [p EXCEPT !.error = LoadFailedMessage, !.loading = FALSE, !.expenses = << >>]

\* getExpensesSubscription(handleUpdate, handleError): without a store it
\* returns null at once; when setting up the listener throws it calls the
\* error callback and returns null; else the listener is attached
getExpensesSubscription(p, throws) ==
  IF ~p.dbAvailable THEN [p EXCEPT !.subscription = "null"]
  ELSE IF throws THEN [handleLoadError(p) EXCEPT !.subscription = "null"]
  ELSE [p EXCEPT !.subscription = "active"]

\* the subscription effect of the provider, run once after it mounts
subscriptionEffect(p, throws) ==
  getExpensesSubscription([p EXCEPT !.loading = TRUE, !.error = NULL], throws)

\* a document of the collection as the listener maps it: '' for a missing
\* description, 0 for an amount that is not a number
mapDoc(doc) ==
  [id |-> doc.id,
   description |-> IF doc.hasDescription THEN doc.description ELSE << >>,
   amount |-> IF doc.amountIsNumber THEN doc.amount ELSE 0]

mapDocs(docs) == [i \in 1..Len(docs) |-> mapDoc(docs[i])]

\* what ExpenseList renders: the loader, else the error, else the empty
\* state, else the list
ExpenseList(p) ==
  IF p.loading THEN "loader"
  ELSE IF p.error # NULL THEN "error"
  ELSE IF p.expenses = << >> THEN "empty"
  ELSE "list"

\* documents of the collection
Docs ==
  { [id |-> "a", hasDescription |-> TRUE, description |-> <<"t", "e", "a">>,
     amountIsNumber |-> TRUE, amount |-> 500],
    [id |-> "b", hasDescription |-> FALSE, description |-> << >>,
     amountIsNumber |-> FALSE, amount |-> 0] }

\* query snapshots: the collection empty, or with one or two documents
Snapshots ==
  {<< >>} \cup {<<d>> : d \in Docs} \cup {q \in Docs \X Docs : q[1] # q[2]}

\* values of expenseData.description with their typeof
DescriptionInputs ==
  { [type |-> "string", text |-> <<"t", "e", "a">>],
    [type |-> "string", text |-> << >>],
    [type |-> "string", text |-> <<" ">>],
    [type |-> "number", text |-> << >>],
    [type |-> "undefined", text |-> << >>] }

\* values of expenseData.amount with their typeof, in hundredths
AmountInputs ==
  { [type |-> "number", class |-> "finite", value |-> 500],
    [type |-> "number", class |-> "finite", value |-> 0],
    [type |-> "number", class |-> "finite", value |-> -500],
    [type |-> "number", class |-> "NaN", value |-> 0],
    [type |-> "number", class |-> "Infinity", value |-> 0],
    [type |-> "number", class |-> "-Infinity", value |-> 0],
    [type |-> "string", class |-> "finite", value |-> 500],
    [type |-> "undefined", class |-> "finite", value |-> 0] }

\* arguments of the context's addExpense
ExpenseInputs ==
  {NoData} \cup
  { [missing |-> FALSE,
     descriptionType |-> d.type, description |-> d.text,
     amountType |-> a.type, amountClass |-> a.class, amount |-> a.value] :
      d \in DescriptionInputs, a \in AmountInputs }

\* one step of the provider to the state p
ProviderStep(op, p, data, outcome, list) ==
  /\ providerOp' = op
  /\ priorError' = ctxError
  /\ expenses' = p.expenses
  /\ loading' = p.loading
  /\ ctxError' = p.error
  /\ subscription' = p.subscription
  /\ inflight' = p.inflight
  /\ lastData' = data
  /\ lastOutcome' = outcome
  /\ lastList' = list
  /\ UNCHANGED <<supported, dbAvailable, mounted, isListening, transcript, error,
                 recognitionRef, attached, hostState, hostFinal, statusMessage,
                 messageSeverity, isProcessing, lastOp, lastText, lastCode,
                 lastThrew, wasListening, hostCalls, addCalls, utterAdds,
                 prevText, rawCode, userMessage, said, parsed>>

\* the provider mounts and its effect runs
ProviderMount ==
  /\ subscription = "none"
  /\ \E throws \in BOOLEAN :
       ProviderStep("mount", subscriptionEffect(Provider, throws),
                    lastData, "", lastList)

\* the listener delivers a query snapshot
Snapshot ==
  /\ subscription = "active"
  /\ \E docs \in Snapshots :
       ProviderStep("snapshot", handleUpdate(Provider, mapDocs(docs)),
                    lastData, "", mapDocs(docs))

\* the listener reports an error, and goes on or ends with it
SubscriptionError ==
  /\ subscription = "active"
  /\ \E after \in {"active", "closed"} :
       ProviderStep("error",
                    [handleLoadError(Provider) EXCEPT !.subscription = after],
                    lastData, "", lastList)

\* the provider's state after addExpense(expenseData) answered outcome at once
afterAdd(p, expenseData, outcome) ==
  IF outcome = "pending"
  THEN [p EXCEPT !.inflight = Append(p.inflight, expenseData)]
  ELSE IF outcome = "null" THEN p
  ELSE [p EXCEPT !.error = outcome]

\* a consumer calls the context's addExpense
ContextAdd ==
  /\ subscription \notin {"none", "unmounted"}
  /\ Len(inflight) < MaxInflight
  /\ \E expenseData \in ExpenseInputs :
       ProviderStep("add",
                    afterAdd(Provider, expenseData,
                             contextAddExpense(Provider, expenseData)),
                    expenseData,
                    contextAddExpense(Provider, expenseData),
                    lastList)

\* the store answers an addDoc of the context
ContextAddSettled ==
  \E i \in 1..Len(inflight), stored \in BOOLEAN :
    ProviderStep("settled",
                 [Provider EXCEPT
                    !.inflight = RemoveAt(inflight, i),
                    !.error = IF stored \/ subscription = "unmounted"
                              THEN ctxError ELSE AddFailedMessage],
                 inflight[i],
                 IF stored THEN "resolved" ELSE AddFailedMessage,
                 lastList)

\* the provider unmounts: the effect's cleanup unsubscribes
ProviderUnmount ==
  /\ subscription \notin {"none", "unmounted"}
  /\ ProviderStep("unmount", [Provider EXCEPT !.subscription = "unmounted"],
                  lastData, "", lastList)

NextProvider ==
  \/ ProviderMount
  \/ Snapshot
  \/ SubscriptionError
  \/ ContextAdd
  \/ ContextAddSettled
  \/ ProviderUnmount

SpecProvider == Init /\ [][NextProvider]_vars

\* ------------------------------------------------------------------------
\* mapSpeechErrorToMessage on its own
\* ------------------------------------------------------------------------

\* strings given to mapSpeechErrorToMessage: the known codes, the messages the
\* hook records itself, other strings and the empty string, each also with a
\* character before or after it
TranslatorInputs ==
  {before \o stem \o after :
     before \in {"", " ", "x"},
     stem \in KnownCodes \cup {"", "foo", "Network", "Unknown recognition error",
                               "Failed to start listening.",
                               "recognition has already started"},
     after \in {"", " ", "s"}}

\* mapSpeechErrorToMessage is called with the string c
Translate ==
  \E c \in TranslatorInputs :
    /\ rawCode' = c
    /\ userMessage' = mapSpeechErrorToMessage(c)
    /\ UNCHANGED <<appVars, said, parsed>>

InitAlone == Init /\ supported /\ dbAvailable

SpecTranslator == InitAlone /\ [][Translate]_vars

\* ------------------------------------------------------------------------
\* parseExpenseString on its own
\* ------------------------------------------------------------------------

\* the most words of a text
MaxWords == 4

\* words before the amount: "Spent", "Add expense"
LeadWords ==
  { <<"S", "p", "e", "n", "t">>,
    <<"A", "d", "d", " ", "e", "x", "p", "e", "n", "s", "e">> }

\* amounts: "$10.50", "$5", "5 dollars"
AmountWords ==
  { <<"$", "1", "0", ".", "5", "0">>,
    <<"$", "5">>,
    <<"5", " ", "d", "o", "l", "l", "a", "r", "s">> }

\* the delimiter keywords: "on", "for"
Delimiters == { <<"o", "n">>, <<"f", "o", "r">> }

\* words of a description: "coffee", "lunch"
DescriptionWords ==
  { <<"c", "o", "f", "f", "e", "e">>, <<"l", "u", "n", "c", "h">> }

Vocabulary == LeadWords \cup AmountWords \cup Delimiters \cup DescriptionWords

\* the text of the words ws, one space between two words
RECURSIVE TextOf(_)
TextOf(ws) ==
  IF ws = << >> THEN << >>
  ELSE IF Len(ws) = 1 THEN ws[1]
  ELSE ws[1] \o <<" ">> \o TextOf(Tail(ws))

\* parseExpenseString is called with the text said so far and one more word
Say ==
  /\ Len(said) < MaxWords
  /\ \E w \in Vocabulary :
       /\ said' = Append(said, w)
       /\ parsed' = parseExpenseString(TextOf(Append(said, w)))
  /\ UNCHANGED <<appVars, rawCode, userMessage>>

SpecParser == InitAlone /\ [][Say]_vars

\* ------------------------------------------------------------------------
\* parseExpenseString on amounts
\* ------------------------------------------------------------------------

\* amounts with a currency symbol: "$0", "$20", "$1,000"
SymbolWords == { <<"$", "0">>, <<"$", "2", "0">>, <<"$", "1", ",", "0", "0", "0">> }

\* an amount with a currency word: "5 dollars"
CurrencyAmountWords == { <<"5", " ", "d", "o", "l", "l", "a", "r", "s">> }

\* a bare number: "7"
BareWords == { <<"7">> }

\* words that are no amount: "eurostar", "Rent"
PlainWords == { <<"e", "u", "r", "o", "s", "t", "a", "r">>, <<"R", "e", "n", "t">> }

AmountVocabulary ==
  SymbolWords \cup CurrencyAmountWords \cup BareWords \cup PlainWords

\* parseExpenseString is called with the text of the words ws
Hear(ws) ==
  /\ said' = ws
  /\ parsed' = parseExpenseString(TextOf(ws))
  /\ UNCHANGED <<appVars, rawCode, userMessage>>

SayAmount ==
  /\ Len(said) < MaxWords
  /\ \E w \in AmountVocabulary : Hear(Append(said, w))

SpecAmounts == InitAlone /\ [][SayAmount]_vars

\* ------------------------------------------------------------------------
\* parseExpenseString on descriptions
\* ------------------------------------------------------------------------

\* amounts: "$20", "15 euro", "12 pounds"
PricedWords == { <<"$", "2", "0">>, <<"1", "5", " ", "e", "u", "r", "o">>, <<"1", "2", " ", "p", "o", "u", "n", "d", "s">> }

\* a filler word: "Log"
NoiseWords == { <<"L", "o", "g">> }

\* words of a description: "Lunch", "taxi", "groceries"
ThingWords == { <<"L", "u", "n", "c", "h">>, <<"t", "a", "x", "i">>, <<"g", "r", "o", "c", "e", "r", "i", "e", "s">> }

\* punctuation said on its own: "."
PunctuationWords == { <<".">> }

DescriptionVocabulary ==
  PricedWords \cup NoiseWords \cup ThingWords \cup PunctuationWords

SayDescription ==
  /\ Len(said) < MaxWords
  /\ \E w \in DescriptionVocabulary : Hear(Append(said, w))

SpecDescriptions == InitAlone /\ [][SayDescription]_vars

\* ------------------------------------------------------------------------
\* parseExpenseString on the phrases of the command configuration
\* ------------------------------------------------------------------------

\* expenseCommands.add: the keywords, the description delimiters and the test
\* phrases of each pattern, a test phrase split into the parts of its
\* structure_example
expenseCommands ==
  << [ id |-> "pattern_spent_on",
       keywords |-> << <<"s", "p", "e", "n", "t">>, <<"p", "a", "i", "d">>, <<"u", "s", "e", "d">>, <<"c", "o", "s", "t">> >>,
       description_delimiters |-> << <<"o", "n">>, <<"f", "o", "r">> >>,
       test_phrases |->
         << << <<"S", "p", "e", "n", "t">>, <<"$", "1", "0", ".", "5", "0">>, <<"o", "n">>, <<"c", "o", "f", "f", "e", "e">> >>,
            << <<"P", "a", "i", "d">>, <<"2", "0", " ", "e", "u", "r", "o", "s">>, <<"f", "o", "r">>, <<"t", "a", "x", "i">> >>,
            << <<"U", "s", "e", "d">>, <<"5", " ", "p", "o", "u", "n", "d", "s">>, <<"o", "n">>, <<"s", "n", "a", "c", "k", "s">> >>,
            << <<"C", "o", "s", "t">>, <<"$", "1", "5">>, <<"f", "o", "r">>, <<"l", "u", "n", "c", "h">> >> >> ],
     [ id |-> "pattern_add_expense",
       keywords |-> << <<"a", "d", "d", " ", "e", "x", "p", "e", "n", "s", "e">>, <<"l", "o", "g", " ", "e", "x", "p", "e", "n", "s", "e">>, <<"e", "x", "p", "e", "n", "s", "e", " ", "o", "f">>, <<"r", "e", "c", "o", "r", "d">>, <<"a", "d", "d">> >>,
       description_delimiters |-> << <<"f", "o", "r">>, <<"o", "n">>, <<"w", "a", "s">>, <<"i", "s">> >>,
       test_phrases |->
         << << <<"A", "d", "d", " ", "e", "x", "p", "e", "n", "s", "e">>, <<"1", "5", " ", "d", "o", "l", "l", "a", "r", "s">>, <<"f", "o", "r">>, <<"l", "u", "n", "c", "h">> >>,
            << <<"L", "o", "g", " ", "e", "x", "p", "e", "n", "s", "e">>, <<"£", "5">>, <<"o", "n">>, <<"t", "r", "a", "i", "n", " ", "t", "i", "c", "k", "e", "t">> >>,
            << <<"E", "x", "p", "e", "n", "s", "e", " ", "o", "f">>, <<"5", "0">>, <<"w", "a", "s">>, <<"g", "r", "o", "c", "e", "r", "i", "e", "s">> >>,
            << <<"R", "e", "c", "o", "r", "d">>, <<"$", "1", "0", "0">>, <<"f", "o", "r">>, <<"r", "e", "n", "t">> >>,
            << <<"A", "d", "d">>, <<"1", "2", " ", "e", "u", "r", "o">>, <<"t", "a", "x", "i", " ", "f", "a", "r", "e">> >> >> ],
     [ id |-> "pattern_implicit_amount_first",
       keywords |-> << >>,
       description_delimiters |-> << >>,
       test_phrases |->
         << << <<"$", "5">>, <<"c", "o", "f", "f", "e", "e">> >>,
            << <<"1", "2", " ", "p", "o", "u", "n", "d", "s">>, <<"l", "u", "n", "c", "h">> >>,
            << <<"€", "8", ".", "5", "0">>, <<"s", "a", "n", "d", "w", "i", "c", "h">> >> >> ] >>

Range(f) == {f[k] : k \in DOMAIN f}

\* where the amount stands in a phrase: first when the phrase has two parts,
\* else after the keyword
AmountPart(phrase) == IF Len(phrase) = 2 THEN 1 ELSE 2

\* the amounts and the descriptions of the test phrases of a pattern
PhraseAmounts(command) == {p[AmountPart(p)] : p \in Range(command.test_phrases)}
PhraseDescriptions(command) == {p[Len(p)] : p \in Range(command.test_phrases)}

\* a test phrase is said, as the one phrase of the run
SayTestPhrase ==
  /\ said = << >>
  /\ \E command \in Range(expenseCommands) :
       \E phrase \in Range(command.test_phrases) : Hear(phrase)

\* the structure_example of a pattern, filled in
Structure(command, amount, description) ==
  IF command.keywords = << >> THEN {<<amount, description>>}
  ELSE {<<keyword, amount, delimiter, description>> :
          keyword \in Range(command.keywords),
          delimiter \in Range(command.description_delimiters)}

\* a phrase of the structure of a pattern is said, with a keyword and a
\* delimiter of the pattern and an amount and a description of its test phrases
SayCommand ==
  /\ said = << >>
  /\ \E command \in Range(expenseCommands) :
       \E amount \in PhraseAmounts(command), description \in PhraseDescriptions(command) :
         \E phrase \in Structure(command, amount, description) : Hear(phrase)

SpecCommands == InitAlone /\ [][SayTestPhrase \/ SayCommand]_vars

\* ------------------------------------------------------------------------
\* Properties
\* ------------------------------------------------------------------------

\* the number of begin-capture requests in a step's host calls
StartRequests(calls) == Cardinality({i \in DOMAIN calls : calls[i] = "start"})

\* C1: the pipeline never re-invokes the add-action on its own: when an
\* invocation resolves or rejects, the add-action is not invoked again for the
\* stored utterance.
C1_NoReinvocation == [][lastOp' = "addSettled" => addCalls' = << >>]_vars

\* C2: at most one parse/add cycle is in flight: while an add-action call is
\* pending, no second one is started.
C2_SingleCycleInFlight == Len(inflight) <= 1

\* C3: a parse/add cycle that ends leaves the processing flag clear and the
\* microphone control enabled: when the only pending add-action completes, the
\* flag is clear afterwards.
C3_FlagClearAfterCycle ==
  [][(lastOp' = "addSettled" /\ mounted' /\ Len(inflight) = 1)
       => ~isProcessing' /\ ~micDisabled([supported |-> supported',
                                           isProcessing |-> isProcessing'])]_vars

\* C4: start() while Listening is a no-op: no host call, still Listening,
\* transcript and error unchanged; begin-capture is requested only from Idle,
\* and at most once in a call.
C4_SecondStartNoOp ==
  [][/\ (lastOp' = "start" /\ isListening)
          => /\ isListening'
             /\ hostCalls' = << >>
             /\ transcript' = transcript
             /\ error' = error
     /\ StartRequests(hostCalls') > 0 => ~isListening /\ StartRequests(hostCalls') = 1]_vars

C4_Witness == lastOp = "start" /\ wasListening /\ isListening /\ hostCalls = << >>

\* C5: Idle becomes Listening only by a start() whose host request succeeds;
\* Listening becomes Idle only by an end event, an error event, or a stop()
\* whose host request throws.
C5_TransitionTable ==
  [][/\ (~isListening /\ isListening')
          => lastOp' = "start" /\ ~lastThrew' /\ StartRequests(hostCalls') = 1
     /\ (isListening /\ ~isListening')
          => lastOp' \in {"end", "error"} \/ (lastOp' = "stop" /\ lastThrew')]_vars

C5_Witness ==
  lastOp = "stop" /\ hostCalls = <<"stop">> /\ ~lastThrew /\ wasListening /\ isListening

\* C6 as stated: start() from Idle with a supported host clears the transcript
\* and the error, requests begin-capture exactly once and moves to Listening.
C6_StartAlwaysListens ==
  [][(lastOp' = "start" /\ ~isListening /\ supported)
       => /\ transcript' = << >>
          /\ error' = NULL
          /\ StartRequests(hostCalls') = 1
          /\ isListening']_vars

\* C6, amended: start() from Idle with a supported host clears the transcript
\* and requests begin-capture exactly once; when the request succeeds the error
\* is clear and the session is Listening, when it throws the session stays Idle
\* and the failure is recorded as the error.
C6_StartFromIdle ==
  [][(lastOp' = "start" /\ ~isListening /\ supported)
       => /\ transcript' = << >>
          /\ StartRequests(hostCalls') = 1
          /\ IF lastThrew'
             THEN ~isListening'
                  /\ error' \in (StartFailures \ {""}) \cup {"Failed to start listening."}
             ELSE isListening' /\ error' = NULL]_vars

C6_Witness ==
  /\ lastOp = "start"
  /\ supported
  /\ ~wasListening
  /\ lastThrew
  /\ ~isListening
  /\ transcript = << >>
  /\ error = "Failed to start listening."

\* C7: with no speech-recognition facility, start() records the unsupported
\* error, no instance is ever created or called, and the session is never
\* Listening.
C7_UnsupportedHost ==
  [][~supported
       => /\ ~isListening'
          /\ ~recognitionRef'
          /\ hostCalls' = << >>
          /\ hostState' = "inactive"
          /\ (lastOp' = "start" => error' = UnsupportedError)]_vars

C7_Witness ==
  ~supported /\ lastOp = "start" /\ error = UnsupportedError /\ ~isListening

\* C8: a result event with non-empty final text stores the text as the
\* transcript, clears the error and leaves the listening state unchanged.
C8_ResultStored ==
  [][(lastOp' = "result" /\ lastText' # << >>)
       => /\ transcript' = lastText'
          /\ error' = NULL
          /\ isListening' = isListening]_vars

C8_Witness ==
  lastOp = "result" /\ lastText # << >> /\ transcript = lastText /\ error = NULL

\* C9: a result event while the session is Idle does not change the transcript.
C9_ResultOnlyWhileListening ==
  [][(lastOp' = "result" /\ ~isListening) => transcript' = transcript]_vars

\* C10: an error event while Listening records the error code, or 'Unknown
\* recognition error' when there is none, and forces Idle; the session becomes
\* Listening again only by start().
C10_ErrorForcesIdle ==
  [][/\ (lastOp' = "error" /\ isListening)
          => /\ ~isListening'
             /\ error' = IF lastCode' # "" THEN lastCode' ELSE "Unknown recognition error"
     /\ (~isListening /\ isListening' /\ error # NULL) => lastOp' = "start"]_vars

C10_Witness ==
  lastOp = "error" /\ wasListening /\ ~isListening /\ error = "no-speech"

\* C11 as stated: stop() from Listening requests the host to end the turn and
\* is forced Idle at once only when the request throws; a final result between
\* stop() and end is stored; after stop() the session stays Listening until the
\* end event (or a further stop() that throws).
C11_ListeningUntilEnd ==
  [][/\ (lastOp' = "stop" /\ isListening)
          => hostCalls' = <<"stop">> /\ isListening' = ~lastThrew'
     /\ (lastOp' = "result" /\ lastText' # << >> /\ hostState = "stopping")
          => transcript' = lastText'
     /\ (hostState = "stopping" /\ isListening /\ ~isListening')
          => lastOp' = "end" \/ (lastOp' = "stop" /\ lastThrew')]_vars

\* C11, amended: as above, but after stop() the session stays Listening until
\* the host's end event or error event (or a further stop() that throws).
C11_StopIsGraceful ==
  [][/\ (lastOp' = "stop" /\ isListening)
          => hostCalls' = <<"stop">> /\ isListening' = ~lastThrew'
     /\ (lastOp' = "result" /\ lastText' # << >> /\ hostState = "stopping")
          => transcript' = lastText'
     /\ (hostState = "stopping" /\ isListening /\ ~isListening')
          => lastOp' \in {"end", "error"} \/ (lastOp' = "stop" /\ lastThrew')]_vars

C11_Witness ==
  /\ lastOp = "result"
  /\ hostState = "stopping"
  /\ isListening
  /\ lastText # << >>
  /\ transcript = lastText

\* C12: stop() while Idle is a no-op: no host call, and transcript, error and
\* the listening state are unchanged.
C12_StopFromIdleNoOp ==
  [][(lastOp' = "stop" /\ ~isListening)
       => /\ hostCalls' = << >>
          /\ ~lastThrew'
          /\ hostState' = hostState
          /\ transcript' = transcript
          /\ error' = error
          /\ ~isListening']_vars

C12_Witness ==
  /\ lastOp = "stop"
  /\ ~wasListening
  /\ ~isListening
  /\ recognitionRef
  /\ hostState = "capturing"
  /\ hostCalls = << >>

\* C13: disposal aborts the capture in flight and detaches the handlers, and
\* after it no host event (result, error, end, those of the abort included)
\* changes transcript, error or the listening state.
C13_DisposalDetaches ==
  [][/\ lastOp' = "unmount"
          => /\ ~attached'
             /\ ~recognitionRef'
             /\ hostCalls' = (IF recognitionRef THEN <<"abort">> ELSE << >>)
             /\ hostState' \notin {"capturing", "stopping"}
     /\ ~mounted'
          => transcript' = transcript /\ error' = error /\ isListening' = isListening]_vars

C13_Witness ==
  ~mounted /\ lastOp = "discarded" /\ lastCode = "aborted" /\ isListening

\* C14: disposal is idempotent: a second disposal, or a disposal with no
\* instance, makes no host call and changes nothing.
C14_DisposalIdempotent ==
  /\ cleanup(cleanup(Cur)) = cleanup(Cur)
  /\ ~recognitionRef => cleanup(Cur) = Cur

C14_Witness ==
  ~mounted /\ lastOp = "unmount" /\ hostCalls = <<"abort">> /\ hostState = "aborting"

\* C15: a success confirmation is shown only when the store reported success:
\* with the store unavailable, no success confirmation is ever shown.
C15_SuccessOnlyWhenStored ==
  statusMessage = "Expense added successfully!" => dbAvailable

\* what the pipeline hands to the add-action for a parse
ExpenseOf(parsedData) ==
  [amount |-> parsedData.amount, description |-> parsedData.description]

\* C16: every invocation of the add-action carries exactly the parsed amount
\* and description of the stored utterance; an utterance that arrives with no
\* cycle in flight leads to one invocation when its parse succeeds and to none
\* when it fails.
C16_AddsWhatWasParsed ==
  [][/\ addCalls' # << >>
          => /\ transcript' \in Utterances
             /\ parsedOk(parseExpenseString(transcript'))
             /\ \A i \in DOMAIN addCalls' :
                  addCalls'[i] = ExpenseOf(parseExpenseString(transcript'))
     /\ (lastOp' = "result" /\ lastText' # << >> /\ ~isProcessing)
          => Len(addCalls') = (IF parsedOk(parseExpenseString(lastText')) THEN 1 ELSE 0)]_vars

C16_Witness ==
  /\ lastOp = "result"
  /\ lastText = <<"T", "a", "x", "i", " ", "7", " ", "u", "s", "d">>
  /\ addCalls = <<[amount |-> 700, description |-> <<"t", "a", "x", "i">>]>>

\* C17: a parse failure is reported with warning severity, the add-action is
\* not invoked, and the processing flag is clear afterwards.
C17_ParseFailureIsWarning ==
  [][(/\ lastOp' = "result"
      /\ lastText' # << >>
      /\ ~isProcessing
      /\ ~parsedOk(parseExpenseString(lastText')))
       => /\ statusMessage' = ParseFailedMessage
          /\ messageSeverity' = "warning"
          /\ addCalls' = << >>
          /\ inflight' = inflight
          /\ ~isProcessing']_vars

C17_Witness ==
  /\ lastOp = "result"
  /\ lastText = <<"h", "i">>
  /\ transcript = lastText
  /\ messageSeverity = "warning"
  /\ ~isProcessing
  /\ addCalls = << >>

\* C18: the translation is total: each of the nine known codes has a message of
\* its own, and every other string, the empty string included, gets the
\* message of the Unknown category.
C18_TranslationTotal ==
  rawCode # NULL
    => IF rawCode \in KnownCodes
       THEN /\ userMessage # ""
            /\ \A other \in TranslatorInputs \ {rawCode} :
                 userMessage # mapSpeechErrorToMessage(other)
       ELSE userMessage \in {UnknownPrefix \o rawCode, UnknownPrefix \o "Unknown error"}

\* the value, in hundredths, of an amount word
AmountOf(w) == IF w = <<"$", "1", "0", ".", "5", "0">> THEN 1050 ELSE 500

\* the words ws are: lead words, the amount word at i, a delimiter keyword, and
\* a description
AmountThenDescription(ws, i) ==
  /\ \A j \in 1..(i - 1) : ws[j] \in LeadWords
  /\ ws[i] \in AmountWords
  /\ i + 2 <= Len(ws)
  /\ ws[i + 1] \in Delimiters
  /\ \A j \in (i + 2)..Len(ws) : ws[j] \in DescriptionWords

\* C19: for a text with an amount and a trailing description introduced by a
\* delimiter keyword, the parse yields exactly that amount and that
\* description.
C19_AmountAndDescriptionExact ==
  \A i \in 1..Len(said) :
    AmountThenDescription(said, i)
      => parsed = [ok |-> TRUE,
                   amount |-> AmountOf(said[i]),
                   description |-> TextOf(SubSeq(said, i + 2, Len(said)))]

\* the words ws without the one at i
Without(ws, i) == SubSeq(ws, 1, i - 1) \o SubSeq(ws, i + 1, Len(ws))

\* the words ws hold no amount, one delimiter keyword, at k, and a description
\* after it
DelimiterAt(ws, k) ==
  /\ \A j \in 1..Len(ws) : ws[j] \notin AmountWords
  /\ \A j \in 1..Len(ws) : ws[j] \in Delimiters <=> j = k
  /\ k < Len(ws)
  /\ \A j \in (k + 1)..Len(ws) : ws[j] \in DescriptionWords

\* C20: when the text left after the amount phrase holds a delimiter keyword,
\* the description is the text after the keyword, wherever the keyword stands,
\* first word included.
C20_DescriptionAfterDelimiter ==
  \A i \in 1..Len(said) :
    said[i] \in AmountWords
      => \A k \in 1..(Len(said) - 1) :
           DelimiterAt(Without(said, i), k)
             => /\ parsed.ok
                /\ parsed.description
                     = TextOf(SubSeq(Without(said, i), k + 1, Len(said) - 1))


\* the text said, as parseExpenseString works on it
SaidText == toLowerCase(TextOf(said))

\* the value, in hundredths, of the number of the match m in the text t, 0
\* when there is no match
PatternValue(t, m) ==
  IF m.found THEN parseFloat(removeCommas(SubSeq(t, m.numFrom, m.numTo))) ELSE 0

\* the values of the three patterns on t, in priority order
PatternValues(t) ==
  << PatternValue(t, SymbolPattern(t)),
     PatternValue(t, WordPattern(t)),
     PatternValue(t, BarePattern(t)) >>

\* C21: a match whose value is not positive is rejected and the next pattern
\* in priority order is tried: when some pattern yields a positive value and
\* the text holds a word for the description, the parse succeeds with the
\* value of the first pattern that yields a positive one.
C21_NextPatternTried ==
  LET values == PatternValues(SaidText)
  IN (/\ \E i \in 1..Len(said) : said[i] = <<"R", "e", "n", "t">>
      /\ \E k \in 1..3 : values[k] > 0)
       => /\ parsed.ok
          /\ parsed.amount = values[Min({k \in 1..3 : values[k] > 0})]


\* where the word i of ws starts and ends in the text of ws
WordStart(ws, i) == Len(TextOf(SubSeq(ws, 1, i - 1))) + (IF i = 1 THEN 1 ELSE 2)
WordEnd(ws, i) == WordStart(ws, i) + Len(ws[i]) - 1

\* the first word of ws that is in the set S
FirstIn(ws, S) == Min({i \in 1..Len(ws) : ws[i] \in S})

Holds(ws, S) == \E i \in 1..Len(ws) : ws[i] \in S

\* the text t without the positions from..to, trimmed
CutSpan(t, from, to) == trim(Sub(t, 1, from - 1) \o Sub(t, to + 1, Len(t)))

\* the match m starts where the word i of said starts
StartsAtWord(m, i) == m.found /\ m.from = WordStart(said, i)

\* the match m is the whole word i of said
IsWord(m, i) == StartsAtWord(m, i) /\ m.to = WordEnd(said, i)

\* C22: the idioms are tried in priority order wherever they stand: an amount
\* with a currency symbol wins over one with a currency word, which wins over
\* a bare number, and the phrase cut out of the text is the span of the
\* winning match.
C22_PriorityAndSpan ==
  LET m == amountPatterns(SaidText)
  IN /\ Holds(said, SymbolWords)
          => /\ StartsAtWord(m, FirstIn(said, SymbolWords))
             /\ m.to <= WordEnd(said, FirstIn(said, SymbolWords))
             /\ (parsed.ok /\ said[FirstIn(said, SymbolWords)] = <<"$", "2", "0">>)
                   => parsed.amount = 2000
     /\ (/\ ~Holds(said, SymbolWords)
         /\ Holds(said, CurrencyAmountWords)
         /\ ~Holds(said, {<<"e", "u", "r", "o", "s", "t", "a", "r">>}))
          => /\ IsWord(m, FirstIn(said, CurrencyAmountWords))
             /\ parsed.ok => parsed.amount = 500
     /\ (/\ ~Holds(said, SymbolWords \cup CurrencyAmountWords)
         /\ Holds(said, BareWords)
         /\ ~Holds(said, {<<"e", "u", "r", "o", "s", "t", "a", "r">>}))
          => /\ IsWord(m, FirstIn(said, BareWords))
             /\ parsed.ok => parsed.amount = 700
     /\ m.found
          => removeAmountPhrase(SaidText, SubSeq(SaidText, m.from, m.to))
               = CutSpan(SaidText, m.from, m.to)

\* "7 5 dollars $20 Rent" has all three idioms, the symbol last
C22_Witness ==
  /\ said = << <<"7">>, <<"5", " ", "d", "o", "l", "l", "a", "r", "s">>,
               <<"$", "2", "0">>, <<"R", "e", "n", "t">> >>
  /\ parsed.ok
  /\ parsed.amount = 2000


\* C23: thousands separators are stripped, so a number written with them has
\* its full value: when the amount is "$1,000", a successful parse has the
\* amount 1000, and "$1,000 Rent" gives 1000 and "rent".
C23_ThousandsSeparator ==
  /\ (/\ Holds(said, SymbolWords)
      /\ said[FirstIn(said, SymbolWords)] = <<"$", "1", ",", "0", "0", "0">>
      /\ parsed.ok)
       => parsed.amount = 100000
  /\ said = << <<"$", "1", ",", "0", "0", "0">>, <<"R", "e", "n", "t">> >>
       => parsed = [ok |-> TRUE, amount |-> 100000,
                    description |-> <<"r", "e", "n", "t">>]


\* C27: the currency-word idiom needs a word boundary after the currency word:
\* a longer word that only starts with a currency word, as in "7 eurostar",
\* is no part of the amount phrase.
C27_CurrencyWordBoundary ==
  LET m == amountPatterns(SaidText)
  IN \A i \in 1..Len(said) :
       (said[i] = <<"e", "u", "r", "o", "s", "t", "a", "r">> /\ m.found)
         => \/ m.to < WordStart(said, i)
            \/ m.from > WordEnd(said, i)


\* C24: a result has an amount greater than zero and a description that is not
\* empty and neither starts nor ends with whitespace or punctuation.
C24_ResultWellFormed ==
  parsed.ok
    => /\ parsed.amount > 0
       /\ parsed.description # << >>
       /\ ~IsSpace(parsed.description[1])
       /\ ~IsPunct(parsed.description[1])
       /\ ~IsSpace(parsed.description[Len(parsed.description)])
       /\ ~IsPunct(parsed.description[Len(parsed.description)])


\* the first and the last word of the text s
FirstWord(s) == Sub(s, 1, Min({k \in 1..(Len(s) + 1) : k > Len(s) \/ IsSpace(s[k])}) - 1)
LastWord(s) == Sub(s, Max({k \in 0..Len(s) : k = 0 \/ IsSpace(s[k])}) + 1, Len(s))

IsFiller(w) == \E k \in 1..Len(FillerWords) : FillerWords[k] = w

\* C25: filler words are stripped from both ends: a returned description
\* neither begins nor ends with a filler word, so a text that leaves only
\* filler words, as "Spent $5", has no result.
C25_NoFillerAtEnds ==
  parsed.ok
    => /\ ~IsFiller(FirstWord(parsed.description))
       /\ ~IsFiller(LastWord(parsed.description))


\* the value, in hundredths, of a priced word
PriceOf(w) ==
  IF w = <<"$", "2", "0">> THEN 2000
  ELSE IF w = <<"1", "5", " ", "e", "u", "r", "o">> THEN 1500
  ELSE 1200

\* the words a..b of ws other than the word i, as they stand in the text with
\* the word i cut out
TextAround(ws, i, a, b) ==
  IF a < i /\ i < b
  THEN TextOf(SubSeq(ws, a, i - 1)) \o <<" ", " ">> \o TextOf(SubSeq(ws, i + 1, b))
  ELSE IF i < a \/ b < i THEN TextOf(SubSeq(ws, a, b))
  ELSE << >>

\* the words ws hold one amount, at i, no delimiter keyword and no
\* punctuation; the other words are description words at a..b, with at most
\* one filler word before them and at most one after them
PlainDescription(ws, i, a, b) ==
  /\ \A j \in 1..Len(ws) : ws[j] \in PricedWords <=> j = i
  /\ a <= b
  /\ a # i
  /\ b # i
  /\ \A j \in (a..b) \ {i} : ws[j] \in ThingWords
  /\ \A j \in (1..(a - 1)) \ {i} : ws[j] \in NoiseWords
  /\ \A j \in ((b + 1)..Len(ws)) \ {i} : ws[j] \in NoiseWords
  /\ Cardinality((1..(a - 1)) \ {i}) <= 1
  /\ Cardinality(((b + 1)..Len(ws)) \ {i}) <= 1

\* C26: without a delimiter keyword the whole text left after the amount
\* phrase, filler words stripped, is the description: "$20 groceries" gives 20
\* and "groceries", "Log 15 euro taxi" gives 15 and "taxi", "Lunch 12 pounds"
\* gives 12 and "lunch".
C26_ResidualIsDescription ==
  \A i \in 1..Len(said) : \A a \in 1..Len(said) : \A b \in 1..Len(said) :
    PlainDescription(said, i, a, b)
      => parsed = [ok |-> TRUE,
                   amount |-> PriceOf(said[i]),
                   description |-> toLowerCase(TextAround(said, i, a, b))]

\* "Log 15 euro taxi" has been parsed
C26_Witness ==
  /\ said = << <<"L", "o", "g">>, <<"1", "5", " ", "e", "u", "r", "o">>,
               <<"t", "a", "x", "i">> >>
  /\ parsed = [ok |-> TRUE, amount |-> 1500, description |-> <<"t", "a", "x", "i">>]


\* the value, in hundredths, of an amount of the test phrases
HundredthsOf(w) ==
  CASE w = <<"$", "1", "0", ".", "5", "0">> -> 1050
    [] w = <<"2", "0", " ", "e", "u", "r", "o", "s">> -> 2000
    [] w = <<"5", " ", "p", "o", "u", "n", "d", "s">> -> 500
    [] w = <<"$", "1", "5">> -> 1500
    [] w = <<"1", "5", " ", "d", "o", "l", "l", "a", "r", "s">> -> 1500
    [] w = <<"£", "5">> -> 500
    [] w = <<"5", "0">> -> 5000
    [] w = <<"$", "1", "0", "0">> -> 10000
    [] w = <<"1", "2", " ", "e", "u", "r", "o">> -> 1200
    [] w = <<"$", "5">> -> 500
    [] w = <<"1", "2", " ", "p", "o", "u", "n", "d", "s">> -> 1200
    [] w = <<"€", "8", ".", "5", "0">> -> 850

\* C28: every test phrase of the command configuration, and every phrase of
\* the structure of a pattern with one of its delimiters ("was" and "is"
\* included for the add-expense pattern), parses to its amount and to the
\* description after the delimiter.
C28_TestPhrasesParse ==
  said # << >>
    => parsed = [ok |-> TRUE,
                 amount |-> HundredthsOf(said[AmountPart(said)]),
                 description |-> toLowerCase(said[Len(said)])]


toUpperChar(c) ==
  IF \E k \in 1..26 : LowerAlpha[k] = c
  THEN UpperAlpha[CHOOSE k \in 1..26 : LowerAlpha[k] = c]
  ELSE c

toUpperCase(s) == [k \in 1..Len(s) |-> toUpperChar(s[k])]

\* the text t in other letter cases, and with whitespace added around it
Variants(t) ==
  { toUpperCase(t),
    toLowerCase(t),
    [k \in 1..Len(t) |-> IF k % 2 = 0 THEN toUpperChar(t[k]) ELSE toLowerChar(t[k])],
    <<" ">> \o t,
    t \o <<" ">>,
    <<"\t", " ">> \o t \o <<" ", "\n">> }

\* C29: the amount does not depend on the letter case of the text nor on
\* whitespace around it: the text said and its variants all fail, or all have
\* the same amount.
C29_CaseAndPaddingInvariant ==
  said # << >>
    => \A v \in Variants(TextOf(said)) :
         /\ parseExpenseString(v).ok = parsed.ok
         /\ parseExpenseString(v).amount = parsed.amount

\* "7 Rent 5 dollars": the currency word decides the amount, and it is found
\* in any letter case
C29_Witness ==
  /\ said = << <<"7">>, <<"R", "e", "n", "t">>,
               <<"5", " ", "d", "o", "l", "l", "a", "r", "s">> >>
  /\ parsed.ok
  /\ parsed.amount = 500
  /\ parseExpenseString(toUpperCase(TextOf(said))).amount = 500


\* C30: a text without a digit has no parsable number: it has no result, and
\* no amount.
C30_NoDigitNoResult ==
  (said # << >> /\ \A k \in 1..Len(TextOf(said)) : ~IsDigit(TextOf(said)[k]))
    => parsed = Null

\* "Log Lunch taxi" has been parsed: no result
C30_Witness ==
  /\ said = << <<"L", "o", "g">>, <<"L", "u", "n", "c", "h">>, <<"t", "a", "x", "i">> >>
  /\ parsed = Null



\* C31: a text that holds a number and of which nothing is left once the
\* amount phrase is removed and the rest trimmed (such as "$5" alone) fails
\* to parse.
C31_EmptyResidualFails ==
  LET m == amountPatterns(SaidText)
  IN (m.found /\ CutSpan(SaidText, m.from, m.to) = << >>) => parsed = Null

C31_Witness ==
  /\ said = << <<"$", "5">> >>
  /\ amountPatterns(SaidText).found
  /\ parsed = Null



C33_ListeningAgreesWithHost ==
  hostState = "capturing" => isListening



\* C35: from the capture widget the host is never asked to start while a
\* parse/add cycle is in flight: with the processing flag set, or an add not
\* yet settled, no step requests start() and none empties the transcript.
C35_NoStartWhileProcessing ==
  [][(isProcessing \/ inflight # << >>)
       => /\ StartRequests(hostCalls') = 0
          /\ lastOp' # "start"
          /\ transcript # << >> => transcript' # << >>]_vars

C35_Witness ==
  /\ mounted
  /\ isProcessing
  /\ inflight # << >>
  /\ ~isListening
  /\ transcript # << >>



\* C36: when the host's start() throws inside start(), the call ends with the
\* session Idle, an error recorded and an empty transcript, and the start()
\* called next is accepted: it asks the host again.
C36_FailedStartRecovers ==
  [][/\ (lastOp' = "start" /\ lastThrew')
          => /\ ~isListening'
             /\ error' # NULL
             /\ transcript' = << >>
     /\ (lastOp = "start" /\ lastThrew /\ lastOp' = "start")
          => StartRequests(hostCalls') = 1]_vars

C36_Witness ==
  /\ lastOp = "start"
  /\ lastThrew
  /\ ~isListening
  /\ error = "recognition has already started"
  /\ hostState = "inactive"
  /\ hostCalls = <<"start">>



\* C40: whenever the session has an error recorded, the widget shows the
\* translated message of that error with error severity.
C40_ErrorIsReported ==
  (mounted /\ error # NULL)
    => /\ statusMessage = mapSpeechErrorToMessage(error)
       /\ messageSeverity = "error"



\* C38: two capture turns in a row that yield the same utterance are both
\* processed: the final result of the second turn is stored again and sets off
\* one parse/add cycle of its own, with one invocation of the add-action when
\* the utterance parses and the parse failure reported when it does not.
C38_RepeatedUtteranceProcessed ==
  [][(lastOp' = "result" /\ lastText' # << >> /\ lastText' = prevText)
       => /\ transcript = << >>
          /\ transcript' = lastText'
          /\ Len(addCalls') = (IF parsedOk(parseExpenseString(lastText')) THEN 1 ELSE 0)
          /\ ~parsedOk(parseExpenseString(lastText'))
               => statusMessage' = ParseFailedMessage]_vars

C38_Witness ==
  /\ lastOp = "result"
  /\ lastText = prevText
  /\ lastText = <<"T", "a", "x", "i", " ", "7", " ", "u", "s", "d">>
  /\ Len(addCalls) = 1



\* C34: once the provider is mounted its loading flag becomes false in every
\* case; in particular the flag is not left set when no snapshot and no error
\* can arrive any more, because the subscription could not be established or
\* has ended.
C34_LoadingEnds ==
  subscription \in {"null", "closed"} => ~loading



\* what the claim calls a valid argument: a description that is a non-empty
\* string and an amount that is a positive finite number
ValidExpense(expenseData) ==
  /\ ~IsMissing(expenseData)
  /\ DescriptionType(expenseData) = "string"
  /\ trim(expenseData.description) # << >>
  /\ AmountType(expenseData) = "number"
  /\ AmountClass(expenseData) = "finite"
  /\ expenseData.amount > 0

\* C37: the context's addExpense rejects with a validation error, without
\* calling the storage service, whenever the description is not a non-empty
\* string or the amount is not a positive finite number, NaN and Infinity
\* included, and the context error is set when it rejects.
C37_ContextValidates ==
  [][(providerOp' = "add" /\ ~ValidExpense(lastData'))
       => /\ lastOutcome' \in {InvalidDescriptionMessage, InvalidAmountMessage}
          /\ ctxError' = lastOutcome'
          /\ inflight' = inflight]_vars



\* C39: the provider's state follows the subscription: after a snapshot
\* loading is false, the error is cleared, also one left by a failed add, and
\* the expenses are the delivered list; after a subscription error loading is
\* false, the error is set and the expenses are empty; and the list view shows
\* exactly one of loader, error, empty state and list, in that priority.
C39_ProviderFollowsSubscription ==
  /\ [](/\ (ExpenseList(Provider) = "loader") = loading
        /\ (ExpenseList(Provider) = "error") = (~loading /\ ctxError # NULL)
        /\ (ExpenseList(Provider) = "empty")
             = (~loading /\ ctxError = NULL /\ expenses = << >>)
        /\ (ExpenseList(Provider) = "list")
             = (~loading /\ ctxError = NULL /\ expenses # << >>))
  /\ [][/\ providerOp' = "snapshot"
             => /\ ~loading'
                /\ ctxError' = NULL
                /\ expenses' = lastList'
        /\ providerOp' = "error"
             => /\ ~loading'
                /\ ctxError' = LoadFailedMessage
                /\ expenses' = << >>]_vars

C39_Witness ==
  /\ providerOp = "snapshot"
  /\ priorError = AddFailedMessage
  /\ ctxError = NULL
  /\ Len(expenses) = 2
  /\ ExpenseList(Provider) = "list"

====
